---- MODULE Spec2Model ----
(***************************************************************************)
(* Randomization of big integers (src/src/bigrand.rs): the RandBigInt      *)
(* methods random_biguint, random_bigint, random_biguint_below,            *)
(* random_biguint_range, random_bigint_range, and the UniformSampler       *)
(* back-ends UniformBigUint and UniformBigInt.                             *)
(*                                                                         *)
(* A BigUint is modelled by the natural number it denotes, a BigInt by the *)
(* record [sign, mag] of its Sign and magnitude.  The entropy source is    *)
(* the environment: every buffer fill and every coin flip is an arbitrary  *)
(* choice.  Each loop iteration of the two rejection loops is one step.    *)
(*                                                                         *)
(* The code generates bits in u32 words (div_rem(&32), `32 - rem`,         *)
(* `<< 32`); it is uniform in that width.  The width is carried here as    *)
(* GenBits, small enough for the words to be enumerated, and the wide      *)
(* storage word is twice as wide, as u64 is to u32.                        *)
(***************************************************************************)
EXTENDS Integers, Sequences, FiniteSets, TLC

\* Width in bits of a generation word (the code's u32).
GenBits == 4
\* Largest bit size passed to random_biguint / random_bigint.
MaxBits == 9
\* Largest bound passed to random_biguint_below.
MaxBound == 18
\* Largest unsigned range bound (random_biguint_range, UniformBigUint).
MaxU == 5
\* Largest absolute value of a signed range bound.
MaxI == 3
\* Largest bit size and bound of the fair-entropy specification.
LiveMaxBits == 3
LiveMaxBound == 6

\* Width in bits of the wide storage word (the code's u64).
NativeBits == 2 * GenBits

Word == 0 .. (2^GenBits - 1)

\* All buffers of n generation words the entropy source may write.
Fills(n) == [1..n -> Word]

---------------------------------------------------------------------------
\* Arithmetic primitives of the underlying big-integer engine.

\* BigUint::bits: the bit length of u (0 for zero).
RECURSIVE bits(_)
bits(u) == IF u = 0 THEN 0 ELSE 1 + bits(u \div 2)

\* Integer::div_ceil
div_ceil(a, b) == (a \div b) + (IF a % b > 0 THEN 1 ELSE 0)

\* biguint_from_vec: the number a little-endian digit vector denotes
\* (normalisation drops the most significant zero digits, which leaves the
\* number unchanged).
RECURSIVE biguint_from_vec(_, _)
biguint_from_vec(data, width) ==
    IF Len(data) = 0 THEN 0
    ELSE Head(data) + (2^width) * biguint_from_vec(Tail(data), width)

\* BigInt::from_biguint: a zero magnitude or a NoSign tag gives zero.
from_biguint(sign, mag) ==
    IF sign = "NoSign" \/ mag = 0
    THEN [sign |-> "NoSign", mag |-> 0]
    ELSE [sign |-> sign, mag |-> mag]

\* BigInt::from(BigUint)
BigIntFrom(u) == from_biguint("Plus", u)

\* The integer a BigInt denotes, and the BigInt of an integer.
ToInt(x) == IF x.sign = "Minus" THEN 0 - x.mag ELSE x.mag
FromInt(i) ==
    IF i = 0 THEN [sign |-> "NoSign", mag |-> 0]
    ELSE IF i < 0 THEN [sign |-> "Minus", mag |-> 0 - i]
    ELSE [sign |-> "Plus", mag |-> i]

BigIntAdd(x, y) == FromInt(ToInt(x) + ToInt(y))
BigIntSub(x, y) == FromInt(ToInt(x) - ToInt(y))
BigIntLt(x, y) == ToInt(x) < ToInt(y)
BigIntLe(x, y) == ToInt(x) <= ToInt(y)
BigIntIsZero(x) == x.sign = "NoSign"

---------------------------------------------------------------------------
\* Bit Generator and Magnitude Constructor.

\* let (digits, rem) = bit_size.div_rem(&32);
\* let len = digits + (rem > 0) as u64
gen_rem(bit_size) == bit_size % GenBits
gen_len(bit_size) ==
    (bit_size \div GenBits) + (IF gen_rem(bit_size) > 0 THEN 1 ELSE 0)

\* A mutant of random_bits: the partial high word is left unmasked.
random_bits_unmasked(fill, rem) == fill

\* random_bits: rng.fill(data), then data[last] >>= 32 - rem when rem > 0.
\* fill is what the entropy source wrote into data.
random_bits(fill, rem) ==
    IF rem > 0
    THEN [fill EXCEPT ![Len(fill)] = fill[Len(fill)] \div (2^(GenBits - rem))]
    ELSE fill

\* random_biguint, 32-bit digit variant.
random_biguint_u32(fill, bit_size) ==
    biguint_from_vec(random_bits(fill, gen_rem(bit_size)), GenBits)

\* debug_assert!(native_len * 2 >= len)
native_len(bit_size) == div_ceil(bit_size, NativeBits)
wide_fits(bit_size) == native_len(bit_size) * 2 >= gen_len(bit_size)

\* A mutant of swap_halves: the big-endian correction is left out.
swap_halves_none(digit) == digit

\* *digit = (*digit << 32) | (*digit >> 32), on a u64
swap_halves(digit) ==
    ((digit * (2^GenBits)) % (2^NativeBits)) + (digit \div (2^GenBits))

\* random_biguint, 64-bit digit variant.  mem is the zeroed u64 buffer seen
\* as generation words in address order; its first len words are the slice
\* random_bits fills and masks.  A u64 is read back with its low half at the
\* lower address on a little-endian target and at the higher address on a
\* big-endian one, where the halves are then swapped.
random_biguint_u64(fill, bit_size, endian) ==
    LET len == gen_len(bit_size)
        nlen == native_len(bit_size)
        view == random_bits(fill, gen_rem(bit_size))
        mem == [i \in 1..(2 * nlen) |-> IF i <= len THEN view[i] ELSE 0]
        load(i) ==
            IF endian = "little"
            THEN mem[2 * i - 1] + (2^GenBits) * mem[2 * i]
            ELSE (2^GenBits) * mem[2 * i - 1] + mem[2 * i]
        data == [i \in 1..nlen |->
                    IF endian = "big" THEN swap_halves(load(i)) ELSE load(i)]
    IN  biguint_from_vec(data, NativeBits)

\* The builds of cfg_digit!: 32-bit digits, or 64-bit digits on a target of
\* either byte order.
Builds == {"u32", "u64le", "u64be"}

random_biguint(build, fill, bit_size) ==
    IF build = "u32" THEN random_biguint_u32(fill, bit_size)
    ELSE IF build = "u64le" THEN random_biguint_u64(fill, bit_size, "little")
    ELSE random_biguint_u64(fill, bit_size, "big")

---------------------------------------------------------------------------
\* Signed Composer, Bounded Sampler, Range Sampler: the pure parts.

\* A mutant of random_bigint_sign: a zero magnitude never retries.
random_bigint_sign_noretry(is_zero, coin) ==
    IF is_zero THEN "NoSign" ELSE IF coin THEN "Plus" ELSE "Minus"

\* The sign chosen by one iteration of random_bigint from the single
\* self.random() it draws, or "continue".
random_bigint_sign(is_zero, coin) ==
    IF is_zero
    THEN (IF coin THEN "continue" ELSE "NoSign")
    ELSE (IF coin THEN "Plus" ELSE "Minus")

\* One iteration of the loop of random_bigint on the drawn magnitude.
random_bigint_iter(biguint, coin) ==
    LET sign == random_bigint_sign(biguint = 0, coin)
    IN  IF sign = "continue"
        THEN [continue |-> TRUE, val |-> from_biguint("NoSign", 0)]
        ELSE [continue |-> FALSE, val |-> from_biguint(sign, biguint)]

\* Mutants of below_accepts: an off-by-one and an inverted comparison.
below_accepts_le(n, bound) == n <= bound
below_accepts_gt(n, bound) == n > bound

\* if n < *bound { return n; }
below_accepts(n, bound) == n < bound

\* A mutant of below_precondition: the assertion is left out.
below_precondition_none(bound) == TRUE

\* assert!(!bound.is_zero())
below_precondition(bound) == bound # 0

\* assert!(*lbound < *ubound), unsigned and signed
biguint_range_precondition(lbound, ubound) == lbound < ubound
bigint_range_precondition(lbound, ubound) == BigIntLt(lbound, ubound)

\* random_biguint_range after its assertion: the bound handed to
\* random_biguint_below and what is done with the draw.
random_biguint_range_plan(lbound, ubound) ==
    IF lbound = 0
    THEN [bound |-> ubound, conv |-> "BigUint", add |-> FALSE, base |-> 0]
    ELSE [bound |-> ubound - lbound, conv |-> "BigUint", add |-> TRUE,
          base |-> lbound]

\* A mutant of random_bigint_range_plan: the ubound = 0 branch draws below
\* lbound.magnitude() but forgets to add lbound.
random_bigint_range_plan_noadd(lbound, ubound) ==
    IF BigIntIsZero(lbound)
    THEN [bound |-> ubound.mag, conv |-> "BigInt", add |-> FALSE,
          base |-> lbound]
    ELSE IF BigIntIsZero(ubound)
    THEN [bound |-> lbound.mag, conv |-> "BigInt", add |-> FALSE,
          base |-> lbound]
    ELSE [bound |-> BigIntSub(ubound, lbound).mag, conv |-> "BigInt",
          add |-> TRUE, base |-> lbound]

\* random_bigint_range after its assertion, in its three branches.
random_bigint_range_plan(lbound, ubound) ==
    IF BigIntIsZero(lbound)
    THEN [bound |-> ubound.mag, conv |-> "BigInt", add |-> FALSE,
          base |-> lbound]
    ELSE IF BigIntIsZero(ubound)
    THEN [bound |-> lbound.mag, conv |-> "BigInt", add |-> TRUE,
          base |-> lbound]
    ELSE [bound |-> BigIntSub(ubound, lbound).mag, conv |-> "BigInt",
          add |-> TRUE, base |-> lbound]

\* What the caller of random_biguint_below makes of its draw n.
finish(k, n) ==
    LET v == IF k.conv = "BigUint"
             THEN (IF k.add THEN k.base + n ELSE n)
             ELSE (IF k.add THEN BigIntAdd(k.base, BigIntFrom(n))
                   ELSE BigIntFrom(n))
    IN  [tag |-> (IF k.ok THEN "Ok_" ELSE "") \o k.conv, val |-> v]

---------------------------------------------------------------------------
\* Distribution Adapters: the pure parts.

NoSampler == [type |-> "none", base |-> 0, len |-> 0]
EmptyRange == [ok |-> FALSE, panic |-> FALSE, sampler |-> NoSampler]

\* A mutant of UniformBigUint_new_accepts: an empty range is let through.
UniformBigUint_new_accepts_le(low, high) == low <= high

\* UniformBigUint::new: if low < high
UniformBigUint_new_accepts(low, high) == low < high

\* UniformBigUint::new, its result and the sampler it builds.  The BigUint
\* subtraction high - low aborts when low is the larger.
UniformBigUint_new(low, high) ==
    IF UniformBigUint_new_accepts(low, high)
    THEN IF high < low
         THEN [ok |-> FALSE, panic |-> TRUE, sampler |-> NoSampler]
         ELSE [ok |-> TRUE, panic |-> FALSE,
               sampler |-> [type |-> "UniformBigUint", base |-> low,
                            len |-> high - low]]
    ELSE EmptyRange

\* UniformBigUint::new_inclusive
UniformBigUint_new_inclusive(low, high) ==
    IF low <= high
    THEN UniformBigUint_new(low, high + 1)
    ELSE EmptyRange

\* UniformBigInt::new
UniformBigInt_new(low, high) ==
    IF BigIntLt(low, high)
    THEN [ok |-> TRUE, panic |-> FALSE,
          sampler |-> [type |-> "UniformBigInt", base |-> low,
                       len |-> BigIntSub(high, low).mag]]
    ELSE EmptyRange

\* UniformBigInt::new_inclusive
UniformBigInt_new_inclusive(low, high) ==
    IF BigIntLe(low, high)
    THEN UniformBigInt_new(low, BigIntAdd(high, FromInt(1)))
    ELSE EmptyRange

\* A mutant of sample_plan: the draw is returned without the base.
sample_plan_nobase(s) ==
    [bound |-> s.len, add |-> FALSE, base |-> s.base,
     conv |-> IF s.type = "UniformBigUint" THEN "BigUint" ELSE "BigInt"]

\* UniformBigUint::sample and UniformBigInt::sample: base + a draw below len.
sample_plan(s) ==
    [bound |-> s.len, add |-> TRUE, base |-> s.base,
     conv |-> IF s.type = "UniformBigUint" THEN "BigUint" ELSE "BigInt"]

---------------------------------------------------------------------------
\* The state.

VARIABLES
    build,      \* the cfg_digit! variant compiled in
    pc,         \* "idle", "bigint_loop", "below_loop", "returned", "panicked"
    op,         \* the entry point the caller invoked
    args,       \* its arguments: [a, b] as integers
    bit_size,   \* bit_size of random_biguint / random_bigint; bits in
                \* random_biguint_below
    bound,      \* bound of the running random_biguint_below
    kont,       \* what the caller of random_biguint_below does with the draw
    words,      \* the last buffer the entropy source filled
    cand,       \* the last magnitude random_biguint produced
    ret,        \* the value returned: [tag, val]
    sampler,    \* the UniformBigUint / UniformBigInt the caller holds
    made,       \* the bounds that sampler was constructed from
    rngUsed     \* whether the running call has drawn from the entropy source

vars == <<build, pc, op, args, bit_size, bound, kont, words, cand, ret,
          sampler, made, rngUsed>>

NoKont == [conv |-> "BigUint", add |-> FALSE, base |-> 0, ok |-> FALSE]
NoRet == [tag |-> "none", val |-> 0]
NoMade == [low |-> 0, high |-> 0, inclusive |-> FALSE]
Kont(plan, ok) ==
    [conv |-> plan.conv, add |-> plan.add, base |-> plan.base, ok |-> ok]

Init ==
    /\ build \in Builds
    /\ pc = "idle"
    /\ op = "none"
    /\ args = [a |-> 0, b |-> 0]
    /\ bit_size = 0
    /\ bound = 0
    /\ kont = NoKont
    /\ words = << >>
    /\ cand = 0
    /\ ret = NoRet
    /\ sampler = NoSampler
    /\ made = NoMade
    /\ rngUsed = FALSE

\* A caller invokes entry point name with arguments a, b.
Enter(name, a, b) ==
    /\ pc = "idle"
    /\ op' = name
    /\ args' = [a |-> a, b |-> b]
    /\ UNCHANGED build

\* The debug assertion of the 64-bit digit variant.
fits(n) == build = "u32" \/ wide_fits(n)

\* random_biguint(bit_size): one fill of the buffer, no loop.
Call_random_biguint(n) ==
    /\ Enter("random_biguint", n, 0)
    /\ sampler = NoSampler
    /\ bit_size' = n
    /\ IF fits(n)
       THEN \E fill \in Fills(gen_len(n)) :
              /\ pc' = "returned"
              /\ words' = fill
              /\ cand' = random_biguint(build, fill, n)
              /\ ret' = [tag |-> "BigUint", val |-> cand']
              /\ rngUsed' = TRUE
       ELSE /\ pc' = "panicked"
            /\ rngUsed' = FALSE
            /\ UNCHANGED <<words, cand, ret>>
    /\ UNCHANGED <<bound, kont, sampler, made>>

\* random_bigint(bit_size) up to its loop.
Call_random_bigint(n) ==
    /\ Enter("random_bigint", n, 0)
    /\ sampler = NoSampler
    /\ bit_size' = n
    /\ pc' = "bigint_loop"
    /\ rngUsed' = FALSE
    /\ UNCHANGED <<bound, kont, words, cand, ret, sampler, made>>

\* One iteration of the loop of random_bigint: a magnitude, then one coin.
BigintIter(fill, coin) ==
    /\ pc = "bigint_loop"
    /\ fill \in Fills(gen_len(bit_size))
    /\ IF fits(bit_size)
       THEN LET biguint == random_biguint(build, fill, bit_size)
                out == random_bigint_iter(biguint, coin)
            IN  /\ words' = fill
                /\ cand' = biguint
                /\ rngUsed' = TRUE
                /\ IF out.continue
                   THEN pc' = "bigint_loop" /\ ret' = ret
                   ELSE /\ pc' = "returned"
                        /\ ret' = [tag |-> "BigInt", val |-> out.val]
       ELSE pc' = "panicked" /\ UNCHANGED <<words, cand, ret, rngUsed>>
    /\ UNCHANGED <<build, op, args, bit_size, bound, kont, sampler, made>>

\* random_biguint_below(bound) up to its loop, on behalf of a caller that
\* will do k with the draw.
EnterBelow(b, k) ==
    /\ bound' = b
    /\ kont' = k
    /\ rngUsed' = FALSE
    /\ IF below_precondition(b)
       THEN pc' = "below_loop" /\ bit_size' = bits(b)
       ELSE pc' = "panicked" /\ bit_size' = 0
    /\ UNCHANGED <<words, cand, ret>>

\* A failed assertion before random_biguint_below is reached.
Panic ==
    /\ pc' = "panicked"
    /\ rngUsed' = FALSE
    /\ UNCHANGED <<bit_size, bound, kont, words, cand, ret>>

Call_random_biguint_below(b) ==
    /\ Enter("random_biguint_below", b, 0)
    /\ sampler = NoSampler
    /\ EnterBelow(b, Kont([conv |-> "BigUint", add |-> FALSE, base |-> 0],
                          FALSE))
    /\ UNCHANGED <<sampler, made>>

\* One iteration of the loop of random_biguint_below.
BelowIter(fill) ==
    /\ pc = "below_loop"
    /\ fill \in Fills(gen_len(bit_size))
    /\ IF fits(bit_size)
       THEN LET n == random_biguint(build, fill, bit_size)
            IN  /\ words' = fill
                /\ cand' = n
                /\ rngUsed' = TRUE
                /\ IF below_accepts(n, bound)
                   THEN pc' = "returned" /\ ret' = finish(kont, n)
                   ELSE pc' = "below_loop" /\ ret' = ret
       ELSE pc' = "panicked" /\ UNCHANGED <<words, cand, ret, rngUsed>>
    /\ UNCHANGED <<build, op, args, bit_size, bound, kont, sampler, made>>

\* The loops draw whatever the entropy source delivers.
BigintStep ==
    /\ pc = "bigint_loop"
    /\ \E fill \in Fills(gen_len(bit_size)), coin \in BOOLEAN :
          BigintIter(fill, coin)

BelowStep ==
    /\ pc = "below_loop"
    /\ \E fill \in Fills(gen_len(bit_size)) : BelowIter(fill)

\* random_biguint_range(lbound, ubound), or sample_single through it.
biguint_range(lbound, ubound, ok) ==
    IF biguint_range_precondition(lbound, ubound)
    THEN LET plan == random_biguint_range_plan(lbound, ubound)
         IN  EnterBelow(plan.bound, Kont(plan, ok))
    ELSE Panic

\* random_bigint_range(lbound, ubound), or sample_single through it.
bigint_range(lbound, ubound, ok) ==
    IF bigint_range_precondition(lbound, ubound)
    THEN LET plan == random_bigint_range_plan(lbound, ubound)
         IN  EnterBelow(plan.bound, Kont(plan, ok))
    ELSE Panic

Call_random_biguint_range(lbound, ubound) ==
    /\ Enter("random_biguint_range", lbound, ubound)
    /\ sampler = NoSampler
    /\ biguint_range(lbound, ubound, FALSE)
    /\ UNCHANGED <<sampler, made>>

Call_random_bigint_range(lbound, ubound) ==
    /\ Enter("random_bigint_range", lbound, ubound)
    /\ sampler = NoSampler
    /\ bigint_range(FromInt(lbound), FromInt(ubound), FALSE)
    /\ UNCHANGED <<sampler, made>>

\* UniformBigUint::sample_single: Ok(rng.random_biguint_range(low, high))
Call_UniformBigUint_sample_single(low, high) ==
    /\ Enter("UniformBigUint_sample_single", low, high)
    /\ sampler = NoSampler
    /\ biguint_range(low, high, TRUE)
    /\ UNCHANGED <<sampler, made>>

\* UniformBigInt::sample_single: Ok(rng.random_bigint_range(low, high))
Call_UniformBigInt_sample_single(low, high) ==
    /\ Enter("UniformBigInt_sample_single", low, high)
    /\ sampler = NoSampler
    /\ bigint_range(FromInt(low), FromInt(high), TRUE)
    /\ UNCHANGED <<sampler, made>>

\* A constructor ends with r: Ok(sampler), Err(EmptyRange) or an abort.
Construct(r, low, high, inclusive) ==
    /\ pc' = IF r.panic THEN "panicked" ELSE "returned"
    /\ rngUsed' = FALSE
    /\ IF r.ok
       THEN /\ ret' = [tag |-> "Ok_Sampler", val |-> 0]
            /\ sampler' = r.sampler
            /\ made' = [low |-> low, high |-> high, inclusive |-> inclusive]
       ELSE /\ ret' = IF r.panic THEN ret
                      ELSE [tag |-> "Err_EmptyRange", val |-> 0]
            /\ UNCHANGED <<sampler, made>>
    /\ UNCHANGED <<bit_size, bound, kont, words, cand>>

Call_UniformBigUint_new(low, high) ==
    /\ Enter("UniformBigUint_new", low, high)
    /\ sampler = NoSampler
    /\ Construct(UniformBigUint_new(low, high), low, high, FALSE)

Call_UniformBigUint_new_inclusive(low, high) ==
    /\ Enter("UniformBigUint_new_inclusive", low, high)
    /\ sampler = NoSampler
    /\ Construct(UniformBigUint_new_inclusive(low, high), low, high, TRUE)

Call_UniformBigInt_new(low, high) ==
    /\ Enter("UniformBigInt_new", low, high)
    /\ sampler = NoSampler
    /\ Construct(UniformBigInt_new(FromInt(low), FromInt(high)),
                 low, high, FALSE)

Call_UniformBigInt_new_inclusive(low, high) ==
    /\ Enter("UniformBigInt_new_inclusive", low, high)
    /\ sampler = NoSampler
    /\ Construct(UniformBigInt_new_inclusive(FromInt(low), FromInt(high)),
                 low, high, TRUE)

\* UniformBigUint::sample / UniformBigInt::sample on the held sampler.
Call_sample ==
    /\ sampler # NoSampler
    /\ Enter(sampler.type \o "_sample", made.low, made.high)
    /\ LET plan == sample_plan(sampler)
       IN  EnterBelow(plan.bound, Kont(plan, FALSE))
    /\ UNCHANGED <<sampler, made>>

\* The caller takes the returned value; the call's frame is gone.
Return ==
    /\ pc = "returned"
    /\ pc' = "idle"
    /\ op' = "none"
    /\ args' = [a |-> 0, b |-> 0]
    /\ bit_size' = 0
    /\ bound' = 0
    /\ kont' = NoKont
    /\ words' = << >>
    /\ cand' = 0
    /\ ret' = NoRet
    /\ rngUsed' = FALSE
    /\ UNCHANGED <<build, sampler, made>>

\* The caller drops the sampler it holds.
Drop ==
    /\ pc = "idle"
    /\ sampler # NoSampler
    /\ sampler' = NoSampler
    /\ made' = NoMade
    /\ UNCHANGED <<build, pc, op, args, bit_size, bound, kont, words, cand,
                   ret, rngUsed>>

BitSizes == 0..MaxBits
Bounds == 0..MaxBound
UBounds == 0..MaxU
IBounds == (0 - MaxI)..MaxI

Next ==
    \/ \E n \in BitSizes : Call_random_biguint(n)
    \/ \E n \in BitSizes : Call_random_bigint(n)
    \/ BigintStep
    \/ \E b \in Bounds : Call_random_biguint_below(b)
    \/ BelowStep
    \/ \E l, u \in UBounds : Call_random_biguint_range(l, u)
    \/ \E l, u \in IBounds : Call_random_bigint_range(l, u)
    \/ \E l, u \in UBounds : Call_UniformBigUint_sample_single(l, u)
    \/ \E l, u \in IBounds : Call_UniformBigInt_sample_single(l, u)
    \/ \E l, u \in UBounds : Call_UniformBigUint_new(l, u)
    \/ \E l, u \in UBounds : Call_UniformBigUint_new_inclusive(l, u)
    \/ \E l, u \in IBounds : Call_UniformBigInt_new(l, u)
    \/ \E l, u \in IBounds : Call_UniformBigInt_new_inclusive(l, u)
    \/ Call_sample
    \/ Return
    \/ Drop

Spec == Init /\ [][Next]_vars

---------------------------------------------------------------------------
\* The same calls under a fair entropy source: every buffer content and both
\* coin outcomes keep being delivered.

LiveFills == UNION {Fills(k) : k \in 0..gen_len(LiveMaxBits)}

NextLive ==
    \/ \E n \in 0..LiveMaxBits : Call_random_bigint(n)
    \/ BigintStep
    \/ \E b \in 1..LiveMaxBound : Call_random_biguint_below(b)
    \/ BelowStep
    \/ Return

FairEntropy ==
    /\ \A fill \in LiveFills : WF_vars(BelowIter(fill))
    /\ \A coin \in BOOLEAN :
          WF_vars(\E fill \in LiveFills : BigintIter(fill, coin))

LiveSpec == Init /\ [][NextLive]_vars /\ FairEntropy

---------------------------------------------------------------------------
\* Properties.

\* The integer a returned value denotes.
RetInt == IF ret.tag \in {"BigInt", "Ok_BigInt"} THEN ToInt(ret.val)
          ELSE ret.val

\* C1: whenever random_biguint_below(B) returns, for a non-zero B, the value
\* n it returns satisfies 0 <= n < B; for B = 1 it is 0.
C1_BelowInRange ==
    (pc = "returned" /\ op = "random_biguint_below") =>
        /\ ret.tag = "BigUint"
        /\ 0 <= ret.val /\ ret.val < args.a
        /\ (args.a = 1 => ret.val = 0)

\* C1 witness: a draw below a bound of several bits returned its largest
\* value.
C1_Witness ==
    /\ pc = "returned" /\ op = "random_biguint_below"
    /\ args.a >= 3 /\ ret.val = args.a - 1

\* C2: the value r returned by random_biguint_range(lbound, ubound) and by
\* random_bigint_range(lbound, ubound) satisfies lbound <= r < ubound, in
\* each branch of the signed sampler.
C2_RangeInRange ==
    /\ (pc = "returned" /\ op = "random_biguint_range") =>
          (ret.tag = "BigUint" /\ args.a <= ret.val /\ ret.val < args.b)
    /\ (pc = "returned" /\ op = "random_bigint_range") =>
          (ret.tag = "BigInt" /\ args.a <= RetInt /\ RetInt < args.b)

\* C2 witness: the signed sampler, with a negative lower and a positive upper
\* bound, returned the largest value of the range.
C2_Witness ==
    /\ pc = "returned" /\ op = "random_bigint_range"
    /\ args.a < 0 /\ args.b > 0 /\ RetInt = args.b - 1

\* C3: random_biguint(n) returns a value below 2^n from a buffer of
\* ceil(n / GenBits) generation words; for n = 0 the buffer is empty and the
\* value is zero.
C3_BitSizeBound ==
    (pc = "returned" /\ op = "random_biguint") =>
        /\ ret.tag = "BigUint"
        /\ 0 <= ret.val /\ ret.val < 2^bit_size
        /\ Len(words) = (bit_size + GenBits - 1) \div GenBits
        /\ (bit_size = 0 => (words = << >> /\ ret.val = 0))

\* C3 witness: a bit size that is no multiple of the word width, a last word
\* of all ones, and the largest value of that bit size returned.
C3_Witness ==
    /\ pc = "returned" /\ op = "random_biguint"
    /\ bit_size % GenBits > 0 /\ Len(words) >= 2
    /\ words[Len(words)] = 2^GenBits - 1
    /\ ret.val = 2^bit_size - 1

NewOps == {"UniformBigUint_new", "UniformBigInt_new"}
NewInclusiveOps == {"UniformBigUint_new_inclusive", "UniformBigInt_new_inclusive"}
SampleOps == {"UniformBigUint_sample", "UniformBigInt_sample"}
SampleSingleOps == {"UniformBigUint_sample_single", "UniformBigInt_sample_single"}
RangeOps == {"random_biguint_range", "random_bigint_range"}

\* C4: new(low, high) returns the empty-range error exactly when low >= high
\* and new_inclusive(low, high) exactly when low > high; otherwise they
\* succeed.  Neither aborts, neither draws from the entropy source.
C4_Constructors ==
    /\ op \in NewOps \cup NewInclusiveOps =>
          /\ pc = "returned"
          /\ ~rngUsed
          /\ ret.tag \in {"Ok_Sampler", "Err_EmptyRange"}
    /\ op \in NewOps =>
          (ret.tag = "Err_EmptyRange" <=> args.a >= args.b)
    /\ op \in NewInclusiveOps =>
          (ret.tag = "Err_EmptyRange" <=> args.a > args.b)

\* C4 witness: new_inclusive with equal bounds succeeded.
C4_Witness ==
    /\ op = "UniformBigUint_new_inclusive" /\ pc = "returned"
    /\ args.a = args.b /\ args.a = MaxU
    /\ ret.tag = "Ok_Sampler"

\* The span a sampler built from made must hold.
MadeLen == made.high - made.low + (IF made.inclusive THEN 1 ELSE 0)

\* C5: a sampler that new or new_inclusive returned holds base = low and a
\* strictly positive len (high - low, or high + 1 - low); sample on it never
\* aborts, and every draw lies in [low, high), or [low, high] for
\* new_inclusive.
C5_SamplerInvariant ==
    /\ sampler # NoSampler =>
          /\ sampler.len > 0
          /\ sampler.len = MadeLen
          /\ IF sampler.type = "UniformBigUint"
             THEN sampler.base = made.low
             ELSE ToInt(sampler.base) = made.low
    /\ op \in SampleOps =>
          /\ pc # "panicked"
          /\ pc = "returned" =>
                /\ ret.tag = (IF op = "UniformBigUint_sample" THEN "BigUint"
                              ELSE "BigInt")
                /\ made.low <= RetInt
                /\ IF made.inclusive THEN RetInt <= made.high
                   ELSE RetInt < made.high

\* C5 witness: a signed sampler built by new_inclusive over several values,
\* with a negative lower bound, drew its upper bound.
C5_Witness ==
    /\ op = "UniformBigInt_sample" /\ pc = "returned"
    /\ made.inclusive /\ made.low < 0 /\ made.low < made.high
    /\ RetInt = made.high

\* C6: sample_single(low, high, rng) returns the empty-range error, and does
\* not abort, when low >= high; with low < high it returns Ok of a value in
\* [low, high).
C6_SampleSingleTypedError ==
    op \in SampleSingleOps =>
        /\ args.a >= args.b =>
              /\ pc # "panicked"
              /\ pc = "returned" => ret.tag = "Err_EmptyRange"
        /\ (args.a < args.b /\ pc = "returned") =>
              /\ ret.tag \in {"Ok_BigUint", "Ok_BigInt"}
              /\ args.a <= RetInt /\ RetInt < args.b

\* C7: random_biguint_below aborts exactly when its bound is zero, and
\* random_biguint_range and random_bigint_range abort exactly when
\* lbound >= ubound; an aborted call returns no value.
C7_FatalPreconditions ==
    /\ op = "random_biguint_below" => (pc = "panicked" <=> args.a = 0)
    /\ op \in RangeOps => (pc = "panicked" <=> args.a >= args.b)
    /\ (op \in RangeOps \cup {"random_biguint_below"} /\ pc = "panicked") =>
          (ret = NoRet /\ ~rngUsed)

\* C7 witness: random_biguint_below(0) aborted.
C7_Witness ==
    op = "random_biguint_below" /\ args.a = 0 /\ pc = "panicked"

\* C8: on a build with 64-bit digits, of either byte order, random_biguint
\* returns the value the 32-bit digit variant computes from the same words,
\* the wide buffer holds the generation words, and the call does not abort.
C8_WideEqualsNarrow ==
    (op = "random_biguint" /\ build # "u32") =>
        /\ pc = "returned"
        /\ native_len(bit_size) * 2 >= Len(words)
        /\ ret.val = random_biguint_u32(words, bit_size)

\* C8 witness: a big-endian build filled an odd number of generation words,
\* the first two different and the last one contributing to the value.
C8_Witness ==
    /\ op = "random_biguint" /\ build = "u64be" /\ pc = "returned"
    /\ Len(words) = 3 /\ words[1] # words[2]
    /\ ret.val >= 2^NativeBits

\* The outcomes of one iteration of random_bigint at bit size n.
Outcomes(n) == (0..(2^n - 1)) \X BOOLEAN
Outcome(o) == random_bigint_iter(o[1], o[2])
Returned(n) == {o \in Outcomes(n) : ~Outcome(o).continue}

\* C9: in an iteration of random_bigint(n), of the 2^n magnitudes paired with
\* both coin outcomes exactly one pair restarts the draw (magnitude zero),
\* exactly one returns zero, and exactly one returns each non-zero v with
\* |v| < 2^n, positive for one coin outcome and negative for the other (the
\* 2^(n+1) - 1 returning pairs cover the 2^(n+1) - 1 values from -(2^n - 1)
\* to 2^n - 1, so each value has exactly one pair); a returned value has
\* sign NoSign if and only if its magnitude is zero.
C9_ZeroBias ==
    /\ (op = "random_bigint" /\ pc = "bigint_loop") =>
          LET n == bit_size
              M == 2^n - 1
          IN  /\ Cardinality(Outcomes(n) \ Returned(n)) = 1
              /\ \A o \in Outcomes(n) \ Returned(n) : o[1] = 0
              /\ Cardinality(Returned(n)) = 2 * M + 1
              /\ {ToInt(Outcome(o).val) : o \in Returned(n)} = (0 - M)..M
              /\ \A m \in 1..M :
                    {Outcome(<<m, c>>).val.sign : c \in BOOLEAN}
                        = {"Plus", "Minus"}
              /\ \A o \in Returned(n) :
                    /\ Outcome(o).val.mag = o[1]
                    /\ (Outcome(o).val.sign = "NoSign"
                            <=> Outcome(o).val.mag = 0)
    /\ (op = "random_bigint" /\ pc = "returned") =>
          /\ ret.tag = "BigInt"
          /\ ret.val.mag = cand
          /\ ret.val.mag < 2^bit_size
          /\ (ret.val.sign = "NoSign" <=> ret.val.mag = 0)

\* C9 witness: random_bigint of several words is back at the top of its loop
\* after a restart.
C9_Witness ==
    /\ op = "random_bigint" /\ pc = "bigint_loop"
    /\ rngUsed /\ bit_size > GenBits

\* At least half of the candidates of the bit size of the bound are below it.
HalfBelow ==
    2 * Cardinality({c \in 0..(2^bit_size - 1) : c < bound}) >= 2^bit_size

\* An iteration that does not return leaves the loop with what it started
\* from: the same bound, bit size and caller.
NoCarry ==
    (pc \in {"below_loop", "bigint_loop"} /\ pc' = pc) =>
        /\ bound' = bound /\ bit_size' = bit_size /\ kont' = kont
        /\ op' = op /\ args' = args /\ ret' = ret

\* C10: under a fair entropy source random_biguint_below(B), B non-zero, and
\* random_bigint(n) eventually return: at least half of the candidates of
\* bit_length(B) bits are below B, and a rejected iteration carries nothing
\* to the next.
C10_Termination ==
    /\ [](pc = "below_loop" => HalfBelow)
    /\ [][NoCarry]_vars
    /\ (pc = "below_loop") ~> (pc = "returned")
    /\ (pc = "bigint_loop") ~> (pc = "returned")

\* C10 witness: random_biguint_below is in its loop after rejecting a
\* candidate that was not below the bound.
C10_Witness ==
    /\ op = "random_biguint_below" /\ pc = "below_loop"
    /\ rngUsed /\ cand >= bound

====
